---- MODULE Spec2Model ----
(***************************************************************************)
(* Model of the simple-ring crate (src/src/lib.rs): RingBuf, a fixed-size  *)
(* byte ring with two wrapping cursors, and its RingReader / RingWriter    *)
(* views.  Cursors are usize; the model keeps their width (WordBits) so    *)
(* that wrapping_add / wrapping_sub overflow is part of the behaviour.     *)
(***************************************************************************)
EXTENDS Integers, Sequences, FiniteSets, TLC

\* ---- bounds of the model ------------------------------------------------
\* width of usize in bits (64 or 32 on real targets)
WordBits == 2
\* largest backing array the model builds (the crate goes up to 4096)
MaxSize == 3
\* largest byte value the callers pass (u8 goes up to 255)
MaxVal == 1
\* longest slice handed to write / read
MaxBuf == 2

WordMod == 2 ^ WordBits
Values == 0 .. MaxVal

\* the lengths an array can have at all: below the range of usize
Lengths == {n \in 1 .. MaxSize : n < WordMod}

\* impl_byte_array_recursive!(1, 2, 4, ..., 4096): the array lengths that
\* implement ByteArray, hence the only sizes ring_buf! / static_ring_buf!
\* compile for.
ArraySizes == {n \in Lengths : \E k \in 0 .. 12 : n = 2 ^ k}

\* &[u8] arguments of write
Bufs == UNION {[1 .. n -> Values] : n \in 0 .. MaxBuf}
\* &mut [u8] arguments of read, as the tests build them: [fill; n], zeroed
\* as in the tests or filled with another byte
Outs == {[i \in 1 .. n |-> f] : n \in 0 .. MaxBuf, f \in {0, MaxVal}}

\* Option<u8>
None == << >>
Some(v) == << v >>

VARIABLES
    reader,     \* RingBuf.reader : Cell<usize>
    writer,     \* RingBuf.writer : Cell<usize>
    length,     \* RingBuf.length : usize
    buffer,     \* RingBuf.buffer : the backing [u8; length]
    panicked,   \* an assert! / expect has aborted the program
    queued,     \* history: values accepted and not yet handed to the reader
    roundtrip,  \* history: the slice of a write of `length` bytes into an empty
                \* ring, kept over the read that directly follows it
    last,       \* observation: the last call made through a view and its result
    wctx,       \* the writer context: where it stands in enqueue / write
    rctx        \* the reader context: where it stands in dequeue / read

vars == << reader, writer, length, buffer, panicked, queued, roundtrip, last,
           wctx, rctx >>

\* the RingBuf the two views point to
Ring == [reader |-> reader, writer |-> writer, length |-> length, buffer |-> buffer]

\* ---- usize arithmetic ---------------------------------------------------
wrapping_add(a, b) == (a + b) % WordMod
wrapping_sub(a, b) == (a - b) % WordMod
min(a, b) == IF a < b THEN a ELSE b

\* ---- RingBuf ------------------------------------------------------------
cap(self) == self.length

\* saturating instead of wrapping subtraction
len_saturating(self) ==
    IF self.writer >= self.reader THEN self.writer - self.reader ELSE 0

len(self) == wrapping_sub(self.writer, self.reader)

\* variant: the operands of the subtraction exchanged
rem_swapped(self) == wrapping_sub(len(self), cap(self))

\* variant: the free space taken for the whole capacity
rem_capacity(self) == cap(self)

rem(self) == wrapping_sub(cap(self), len(self))

\* compares the physical slots instead of the raw cursors
is_empty_slot(self) == self.reader % self.length = self.writer % self.length

is_empty(self) == self.reader = self.writer

\* wrong comparison: never true while the count is within the capacity
is_full_gt(self) == len(self) > cap(self)

\* variant: the read cursor kept as a slot index, reset at the capacity
incr_reader_index(self) ==
    IF is_empty(self)
    THEN [ring |-> self, panic |-> TRUE]
    ELSE [ring |-> [self EXCEPT !.reader = (self.reader + 1) % self.length],
          panic |-> FALSE]

is_full(self) == len(self) = cap(self)

incr_reader(self) ==
    IF is_empty(self)
    THEN [ring |-> self, panic |-> TRUE]
    ELSE [ring |-> [self EXCEPT !.reader = wrapping_add(self.reader, 1)],
          panic |-> FALSE]

\* variant: the write cursor advanced without the assertion
incr_writer_unchecked(self) ==
    [ring |-> [self EXCEPT !.writer = wrapping_add(self.writer, 1)],
     panic |-> FALSE]

\* saturating instead of wrapping increment
incr_writer_saturating(self) ==
    IF is_full(self)
    THEN [ring |-> self, panic |-> TRUE]
    ELSE [ring |-> [self EXCEPT !.writer = min(self.writer + 1, WordMod - 1)],
          panic |-> FALSE]

incr_writer(self) ==
    IF is_full(self)
    THEN [ring |-> self, panic |-> TRUE]
    ELSE [ring |-> [self EXCEPT !.writer = wrapping_add(self.writer, 1)],
          panic |-> FALSE]

phy(self, index) == index % cap(self)

\* variant: stores the byte in the slot after the write cursor's
enqueue_next_slot(self, value) ==
    IF is_full(self)
    THEN [ring |-> self, ret |-> FALSE, panic |-> FALSE]
    ELSE LET w == phy(self, wrapping_add(self.writer, 1))
             set == [self EXCEPT !.buffer[w] = value]
             inc == incr_writer(set)
         IN  [ring |-> inc.ring, ret |-> ~inc.panic, panic |-> inc.panic]

\* stores the byte before looking at is_full
enqueue_store_first(self, value) ==
    LET w == phy(self, self.writer)
        set == [self EXCEPT !.buffer[w] = value]
    IN  IF is_full(self)
        THEN [ring |-> set, ret |-> FALSE, panic |-> FALSE]
        ELSE LET inc == incr_writer(set)
             IN  [ring |-> inc.ring, ret |-> ~inc.panic, panic |-> inc.panic]

enqueue(self, value) ==
    IF is_full(self)
    THEN [ring |-> self, ret |-> FALSE, panic |-> FALSE]
    ELSE LET w == phy(self, self.writer)
             set == [self EXCEPT !.buffer[w] = value]
             inc == incr_writer(set)
         IN  [ring |-> inc.ring, ret |-> ~inc.panic, panic |-> inc.panic]

\* variant: hands over the oldest byte and leaves it queued
dequeue_peek(self) ==
    IF is_empty(self)
    THEN [ring |-> self, ret |-> None, panic |-> FALSE]
    ELSE [ring |-> self, ret |-> Some(self.buffer[phy(self, self.reader)]),
          panic |-> FALSE]

\* variant: clears the slot it has read
dequeue_clearing(self) ==
    IF is_empty(self)
    THEN [ring |-> self, ret |-> None, panic |-> FALSE]
    ELSE LET r == phy(self, self.reader)
             value == self.buffer[r]
             inc == incr_reader([self EXCEPT !.buffer[r] = 0])
         IN  [ring |-> inc.ring,
              ret |-> IF inc.panic THEN None ELSE Some(value),
              panic |-> inc.panic]

\* loads the byte from the slot after the read cursor
dequeue_after_incr(self) ==
    IF is_empty(self)
    THEN [ring |-> self, ret |-> None, panic |-> FALSE]
    ELSE LET r == phy(self, wrapping_add(self.reader, 1))
             value == self.buffer[r]
             inc == incr_reader(self)
         IN  [ring |-> inc.ring,
              ret |-> IF inc.panic THEN None ELSE Some(value),
              panic |-> inc.panic]

\* no is_empty test: relies on the assert! of incr_reader
dequeue_unguarded(self) ==
    LET r == phy(self, self.reader)
        value == self.buffer[r]
        inc == incr_reader(self)
    IN  [ring |-> inc.ring,
         ret |-> IF inc.panic THEN None ELSE Some(value),
         panic |-> inc.panic]

dequeue(self) ==
    IF is_empty(self)
    THEN [ring |-> self, ret |-> None, panic |-> FALSE]
    ELSE LET r == phy(self, self.reader)
             value == self.buffer[r]
             inc == incr_reader(self)
         IN  [ring |-> inc.ring,
              ret |-> IF inc.panic THEN None ELSE Some(value),
              panic |-> inc.panic]

\* for i in 0..n { self.enqueue(buf[i]); }  -- the bool of enqueue is dropped;
\* acc collects the elements whose enqueue returned true.
RECURSIVE write_loop(_, _, _, _, _)
write_loop(self, buf, i, n, acc) ==
    IF i = n
    THEN [ring |-> self, ret |-> n, accepted |-> acc, panic |-> FALSE]
    ELSE LET e == enqueue(self, buf[i + 1])
         IN  IF e.panic
             THEN [ring |-> e.ring, ret |-> n, accepted |-> acc, panic |-> TRUE]
             ELSE write_loop(e.ring, buf, i + 1, n,
                             IF e.ret THEN Append(acc, buf[i + 1]) ELSE acc)

\* clamps to the occupied count instead of the free count
write_occupied(self, buf) ==
    LET n == min(len(self), Len(buf))
    IN  write_loop(self, buf, 0, n, << >>)

\* no clamp: tries every element of the slice
write_unclamped(self, buf) ==
    LET n == Len(buf)
    IN  write_loop(self, buf, 0, n, << >>)

write(self, buf) ==
    LET n == min(rem(self), Len(buf))
    IN  write_loop(self, buf, 0, n, << >>)

\* for i in 0..n { buf[i] = self.dequeue().expect("Ring buffer is empty"); }
RECURSIVE read_loop(_, _, _, _)
read_loop(self, buf, i, n) ==
    IF i = n
    THEN [ring |-> self, ret |-> n, buf |-> buf, taken |-> i, panic |-> FALSE]
    ELSE LET d == dequeue(self)
         IN  IF d.panic \/ d.ret = None
             THEN [ring |-> d.ring, ret |-> n, buf |-> buf, taken |-> i, panic |-> TRUE]
             ELSE read_loop(d.ring, [buf EXCEPT ![i + 1] = d.ret[1]], i + 1, n)

\* no clamp: fills the whole slice
read_unclamped(self, buf) ==
    LET n == Len(buf)
    IN  read_loop(self, buf, 0, n)

read(self, buf) ==
    LET n == min(len(self), Len(buf))
    IN  read_loop(self, buf, 0, n)

\* ---- history bookkeeping --------------------------------------------------
\* the queue after the reader was handed its first k values
Drop(s, k) == IF k >= Len(s) THEN << >> ELSE SubSeq(s, k + 1, Len(s))

\* the record of one call: which operation, how many elements were queued
\* before it, its argument as passed (enqueue's byte, write's / read's slice)
\* and what it returned (ok: enqueue's bool, val: dequeue's Option<u8>,
\* n: write's / read's count, out: read's slice after the call).
Call(op, arg, ok, val, n, out) ==
    [op |-> op, before |-> Len(queued), arg |-> arg,
     ok |-> ok, val |-> val, n |-> n, out |-> out]

Store(ring) ==
    /\ reader' = ring.reader
    /\ writer' = ring.writer
    /\ buffer' = ring.buffer
    /\ length' = ring.length

\* a context that is in none of its operations
WIdle == [pc |-> "idle", call |-> "none", rest |-> << >>, n |-> 0, oks |-> 0]
RIdle == [pc |-> "idle", call |-> "none", val |-> 0, left |-> 0]

\* ---- the views: one action per public method ----------------------------
\* RingWriter::enqueue
WriterEnqueue(value) ==
    /\ ~panicked
    /\ \E r \in {enqueue(Ring, value)} :
           /\ Store(r.ring)
           /\ panicked' = r.panic
           /\ queued' = IF r.ret THEN Append(queued, value) ELSE queued
           /\ roundtrip' = << >>
           /\ last' = Call("enqueue", << value >>, r.ret, None, 0, << >>)
           /\ UNCHANGED << wctx, rctx >>

\* RingReader::dequeue
ReaderDequeue ==
    /\ ~panicked
    /\ \E r \in {dequeue(Ring)} :
           /\ Store(r.ring)
           /\ panicked' = r.panic
           /\ queued' = IF r.ret = None THEN queued ELSE Drop(queued, 1)
           /\ roundtrip' = << >>
           /\ last' = Call("dequeue", << >>, FALSE, r.ret, 0, << >>)
           /\ UNCHANGED << wctx, rctx >>

\* RingWriter::write
WriterWrite(buf) ==
    /\ ~panicked
    /\ \E r \in {write(Ring, buf)} :
           /\ Store(r.ring)
           /\ panicked' = r.panic
           /\ queued' = queued \o r.accepted
           /\ roundtrip' = IF queued = << >> /\ Len(buf) = length THEN buf ELSE << >>
           /\ last' = Call("write", buf, FALSE, None, r.ret, << >>)
           /\ UNCHANGED << wctx, rctx >>

\* RingReader::read
ReaderRead(buf) ==
    /\ ~panicked
    /\ \E r \in {read(Ring, buf)} :
           /\ Store(r.ring)
           /\ panicked' = r.panic
           /\ queued' = Drop(queued, r.taken)
           /\ roundtrip' = IF last.op = "write" THEN roundtrip ELSE << >>
           /\ last' = Call("read", buf, FALSE, None, r.ret, r.buf)
           /\ UNCHANGED << wctx, rctx >>

\* ring_buf!($size) / static_ring_buf!($size)
New(size) ==
    /\ reader = 0
    /\ writer = 0
    /\ length = size
    /\ buffer = [i \in 0 .. size - 1 |-> 0]
    /\ panicked = FALSE
    /\ queued = << >>
    /\ roundtrip = << >>
    /\ last = [op |-> "new", before |-> 0, arg |-> << >>,
               ok |-> FALSE, val |-> None, n |-> 0, out |-> << >>]
    /\ wctx = WIdle
    /\ rctx = RIdle

Init == \E size \in ArraySizes : New(size)

Next ==
    \/ \E value \in Values : WriterEnqueue(value)
    \/ ReaderDequeue
    \/ \E buf \in Bufs : WriterWrite(buf)
    \/ \E buf \in Outs : ReaderRead(buf)

Spec == Init /\ [][Next]_vars

\* The same program over a backing store of any length in Lengths, as the
\* RingBuf struct itself (length: usize, buffer: *mut ByteArray) allows.
InitAnySize == \E size \in Lengths : New(size)

SpecAnySize == InitAnySize /\ [][Next]_vars

\* ---- a writer that enqueues and a reader that keeps dequeuing -------------
NextLive ==
    \/ \E value \in Values : WriterEnqueue(value)
    \/ ReaderDequeue

\* the reader context calls dequeue again and again
ReaderFair == WF_vars(ReaderDequeue)

\* the writer context calls enqueue again and again
WriterRetries == WF_vars(\E value \in Values : WriterEnqueue(value))

SpecLive == Init /\ [][NextLive]_vars /\ ReaderFair

\* the element accepted at cursor value p is queued
InWindow(p) == wrapping_sub(p, reader) < len(Ring)

\* ---- the cursor increments called on their own ----------------------------
\* incr_writer and incr_reader are private: only code of the crate can call
\* them, and enqueue / dequeue call them behind their own checks.  Here they
\* are applied to the buffer as it stands, full and empty included.

\* self.incr_writer(): the slot under the write cursor becomes queued as it is
IncrWriter ==
    /\ ~panicked
    /\ \E r \in {incr_writer(Ring)} :
           /\ Store(r.ring)
           /\ panicked' = r.panic
           /\ queued' = IF r.panic THEN queued
                        ELSE Append(queued, buffer[phy(Ring, writer)])
           /\ last' = Call("incr_writer", << >>, FALSE, None, 0, << >>)
           /\ UNCHANGED << roundtrip, wctx, rctx >>

\* self.incr_reader(): the oldest element is dropped
IncrReader ==
    /\ ~panicked
    /\ \E r \in {incr_reader(Ring)} :
           /\ Store(r.ring)
           /\ panicked' = r.panic
           /\ queued' = IF r.panic THEN queued ELSE Drop(queued, 1)
           /\ last' = Call("incr_reader", << >>, FALSE, None, 0, << >>)
           /\ UNCHANGED << roundtrip, wctx, rctx >>

NextGuard ==
    \/ \E value \in Values : WriterEnqueue(value)
    \/ ReaderDequeue
    \/ \E buf \in Bufs : WriterWrite(buf)
    \/ \E buf \in Outs : ReaderRead(buf)
    \/ IncrWriter
    \/ IncrReader

SpecGuard == Init /\ [][NextGuard]_vars

\* ---- one writer context and one reader context, step by step -------------
\* Each step makes at most one access to what the two contexts share: the
\* cursor of the other side, a storage slot, or the own cursor the other side
\* reads.  What follows an access without touching shared state (taking the
\* argument, the return) is part of the same step.

\* the statements of enqueue in program order: is_full(), buffer.set(),
\* the assert! of incr_writer, writer.set()
\* variant: the cursor is advanced before the slot is stored
WOrder_advance_first == << "check", "assert", "advance", "store" >>

WOrder == << "check", "store", "assert", "advance" >>

\* the statements of dequeue in program order: is_empty(), buffer.get(),
\* the assert! of incr_reader, reader.set()
ROrder == << "check", "load", "assert", "advance" >>

\* the statement after pc in order, "done" after the last one
After(order, pc) ==
    LET k == CHOOSE i \in 1 .. Len(order) : order[i] = pc
    IN  IF k = Len(order) THEN "done" ELSE order[k + 1]

\* the inner enqueue has returned ok: write drops the bool and goes on with
\* the next element, or returns n; enqueue returns
WFinish(ctx, ok) ==
    LET oks == IF ok THEN ctx.oks + 1 ELSE ctx.oks
    IN  IF Len(ctx.rest) <= 1
        THEN WIdle
        ELSE [ctx EXCEPT !.pc = WOrder[1], !.rest = Tail(ctx.rest), !.oks = oks]

\* the writer has made the statement at ctx.pc
WStepped(ctx) ==
    IF After(WOrder, ctx.pc) = "done"
    THEN WFinish(ctx, TRUE)
    ELSE [ctx EXCEPT !.pc = After(WOrder, ctx.pc)]

\* variant: enqueue without its fullness check
WChecked_unguarded(ctx) == WStepped(ctx)

\* if self.is_full() { false } else { ... }
WChecked(ctx) ==
    IF is_full(Ring) THEN WFinish(ctx, FALSE) ELSE WStepped(ctx)

\* the inner dequeue has returned Some(val): read stores it in its slice and
\* goes on with the next iteration, or returns n; dequeue returns it.  The
\* local holding the value ends with the call.
RFinish(ctx) ==
    IF ctx.left <= 1
    THEN RIdle
    ELSE [ctx EXCEPT !.pc = ROrder[1], !.val = 0, !.left = ctx.left - 1]

\* the reader has made the statement at ctx.pc
RStepped(ctx) ==
    IF After(ROrder, ctx.pc) = "done"
    THEN RFinish(ctx)
    ELSE [ctx EXCEPT !.pc = After(ROrder, ctx.pc)]

\* if self.is_empty() { None } else { ... }; read's expect panics on None
RChecked(ctx) ==
    IF is_empty(Ring)
    THEN IF ctx.call = "read" THEN [ctx EXCEPT !.pc = "panic"] ELSE RIdle
    ELSE RStepped(ctx)

\* RingWriter::enqueue is called: is_full()
WCallEnqueue(value) ==
    /\ ~panicked /\ wctx.pc = "idle"
    /\ wctx' = WChecked([WIdle EXCEPT !.pc = "check", !.call = "enqueue",
                                      !.rest = << value >>, !.n = 1])
    /\ UNCHANGED << reader, writer, length, buffer, panicked, queued,
                    roundtrip, last, rctx >>

\* RingWriter::write is called: let n = cmp::min(self.rem(), buf.len())
WCallWrite(buf) ==
    /\ ~panicked /\ wctx.pc = "idle"
    /\ LET n == min(rem(Ring), Len(buf))
       IN  wctx' = IF n = 0
                   THEN WIdle
                   ELSE [pc |-> WOrder[1], call |-> "write",
                         rest |-> SubSeq(buf, 1, n), n |-> n, oks |-> 0]
    /\ UNCHANGED << reader, writer, length, buffer, panicked, queued,
                    roundtrip, last, rctx >>

\* self.enqueue(buf[i]) inside write: is_full()
WCheck ==
    /\ ~panicked /\ wctx.pc = "check"
    /\ wctx' = WChecked(wctx)
    /\ UNCHANGED << reader, writer, length, buffer, panicked, queued,
                    roundtrip, last, rctx >>

\* (&mut *self.buffer).set(writer, value)
WStore ==
    /\ ~panicked /\ wctx.pc = "store"
    /\ buffer' = [buffer EXCEPT ![phy(Ring, writer)] = Head(wctx.rest)]
    /\ wctx' = WStepped(wctx)
    /\ UNCHANGED << reader, writer, length, panicked, queued, roundtrip, last, rctx >>

\* assert!(!self.is_full(), ...)
WAssert ==
    /\ ~panicked /\ wctx.pc = "assert"
    /\ panicked' = is_full(Ring)
    /\ wctx' = IF is_full(Ring) THEN wctx ELSE WStepped(wctx)
    /\ UNCHANGED << reader, writer, length, buffer, queued, roundtrip, last, rctx >>

\* self.writer.set(self.writer.get().wrapping_add(1)): the element is accepted
WAdvance ==
    /\ ~panicked /\ wctx.pc = "advance"
    /\ writer' = wrapping_add(writer, 1)
    /\ queued' = Append(queued, Head(wctx.rest))
    /\ wctx' = WStepped(wctx)
    /\ UNCHANGED << reader, length, buffer, panicked, roundtrip, last, rctx >>

\* variant: a dequeue that waits for an element
RCallDequeue_blocking ==
    /\ ~panicked /\ rctx.pc = "idle"
    /\ ~is_empty(Ring)
    /\ rctx' = RChecked([RIdle EXCEPT !.pc = "check", !.call = "dequeue",
                                      !.left = 1])
    /\ UNCHANGED << reader, writer, length, buffer, panicked, queued,
                    roundtrip, last, wctx >>

\* RingReader::dequeue is called: is_empty()
RCallDequeue ==
    /\ ~panicked /\ rctx.pc = "idle"
    /\ rctx' = RChecked([RIdle EXCEPT !.pc = "check", !.call = "dequeue",
                                      !.left = 1])
    /\ UNCHANGED << reader, writer, length, buffer, panicked, queued,
                    roundtrip, last, wctx >>

\* RingReader::read is called with a slice of l bytes:
\* let n = cmp::min(self.len(), buf.len())
RCallRead(l) ==
    /\ ~panicked /\ rctx.pc = "idle"
    /\ LET n == min(len(Ring), l)
       IN  rctx' = IF n = 0
                   THEN RIdle
                   ELSE [pc |-> ROrder[1], call |-> "read", val |-> 0,
                         left |-> n]
    /\ UNCHANGED << reader, writer, length, buffer, panicked, queued,
                    roundtrip, last, wctx >>

\* self.dequeue() inside read: is_empty(), and the expect on its result
RCheck ==
    /\ ~panicked /\ rctx.pc = "check"
    /\ rctx' = RChecked(rctx)
    /\ panicked' = (rctx'.pc = "panic")
    /\ UNCHANGED << reader, writer, length, buffer, queued, roundtrip, last, wctx >>

\* let value = (&mut *self.buffer).get(reader)
RLoad ==
    /\ ~panicked /\ rctx.pc = "load"
    /\ rctx' = RStepped([rctx EXCEPT !.val = buffer[phy(Ring, reader)]])
    /\ UNCHANGED << reader, writer, length, buffer, panicked, queued,
                    roundtrip, last, wctx >>

\* assert!(!self.is_empty(), ...)
RAssert ==
    /\ ~panicked /\ rctx.pc = "assert"
    /\ panicked' = is_empty(Ring)
    /\ rctx' = IF is_empty(Ring) THEN rctx ELSE RStepped(rctx)
    /\ UNCHANGED << reader, writer, length, buffer, queued, roundtrip, last, wctx >>

\* self.reader.set(self.reader.get().wrapping_add(1)); Some(value) goes to
\* the caller
RAdvance ==
    /\ ~panicked /\ rctx.pc = "advance"
    /\ reader' = wrapping_add(reader, 1)
    /\ queued' = Drop(queued, 1)
    /\ rctx' = RStepped(rctx)
    /\ UNCHANGED << writer, length, buffer, panicked, roundtrip, last, wctx >>

\* the next statement of the operation the writer context is in
WStep == WCheck \/ WStore \/ WAssert \/ WAdvance

\* the next statement of the operation the reader context is in
RStep == RCheck \/ RLoad \/ RAssert \/ RAdvance

\* the statements an operation still has to make, at most: those left of the
\* inner call it is in and all of those to come
Work(order, pc, calls) ==
    IF pc = "idle" THEN 0
    ELSE Len(order) * calls + 1 - (CHOOSE i \in 1 .. Len(order) : order[i] = pc)

NextConc ==
    \/ \E value \in Values : WCallEnqueue(value)
    \/ \E buf \in Bufs : WCallWrite(buf)
    \/ WCheck
    \/ WStore
    \/ WAssert
    \/ WAdvance
    \/ RCallDequeue
    \/ \E l \in 0 .. MaxBuf : RCallRead(l)
    \/ RCheck
    \/ RLoad
    \/ RAssert
    \/ RAdvance

SpecConc == Init /\ [][NextConc]_vars

\* ---- helpers of the properties -------------------------------------------
\* the occupied count as the data model states it: write cursor minus read
\* cursor, wrapping
Occupied == wrapping_sub(writer, reader)

\* what the reader gets by calling dequeue until it answers None, as the
\* tests do after filling the ring
RECURSIVE Drain(_, _)
Drain(self, fuel) ==
    IF fuel = 0
    THEN << >>
    ELSE LET d == dequeue(self)
         IN  IF d.panic \/ d.ret = None
             THEN << >>
             ELSE << d.ret[1] >> \o Drain(d.ring, fuel - 1)

Drained == Drain(Ring, WordMod)

\* ---- C1 ------------------------------------------------------------------
\* C1: in every reachable state the occupied count (write cursor minus read
\* cursor, wrapping) is at least 0 and at most the capacity.
C1_CountWithinCapacity == Occupied \in 0 .. length

\* the ring holds `length` elements and the write cursor has overflowed
C1_Witness == Occupied = length /\ writer < reader /\ last.op = "enqueue" /\ last.ok

\* ---- C2 ------------------------------------------------------------------
\* C2: FIFO order.  An enqueue returns true exactly while fewer than `length`
\* accepted values are waiting (so from an empty ring the first `length`
\* enqueues succeed and the next one fails), and a dequeue returns the oldest
\* accepted value not yet handed out, or None when there is none (so the
\* values come back in the order they went in, and one more dequeue after
\* draining answers None).
C2_Fifo ==
    [][ /\ last'.op = "enqueue" => last'.ok = (Len(queued) < length)
        /\ last'.op = "dequeue" =>
              last'.val = (IF queued = << >> THEN None ELSE Some(Head(queued)))
      ]_vars

\* `length` values went in and came out again, and one more dequeue got None
C2_Witness ==
    /\ last.op = "dequeue" /\ last.val = None
    /\ length > 1 /\ reader = length /\ writer = length
    /\ buffer[0] # buffer[1]

\* ---- C3 ------------------------------------------------------------------
\* C3: an enqueue on a full ring (occupied count = capacity) returns false and
\* leaves the read cursor, the write cursor and every storage slot as they
\* were.
C3_EnqueueOnFull ==
    [][ (last'.op = "enqueue" /\ Occupied = length) =>
            /\ last'.ok = FALSE
            /\ ~panicked'
            /\ reader' = reader
            /\ writer' = writer
            /\ buffer' = buffer
            /\ Occupied' = length
      ]_vars

\* exactly `length` enqueues and no dequeue, then a refused enqueue
C3_Witness ==
    /\ last.op = "enqueue" /\ ~last.ok /\ last.before = length
    /\ reader = 0 /\ writer = length

\* ---- C4 ------------------------------------------------------------------
\* C4: a dequeue on an empty ring (read cursor = write cursor) returns None and
\* leaves both cursors and the storage as they were, also when the ring has
\* been used before.
C4_DequeueOnEmpty ==
    [][ (last'.op = "dequeue" /\ reader = writer) =>
            /\ last'.val = None
            /\ ~panicked'
            /\ reader' = reader
            /\ writer' = writer
            /\ buffer' = buffer
            /\ Occupied' = 0
      ]_vars

\* an empty ring that has carried data answers None
C4_Witness ==
    /\ last.op = "dequeue" /\ last.val = None /\ last.before = 0
    /\ reader = writer /\ reader > 0
    /\ \E i \in 0 .. length - 1 : buffer[i] # 0

\* ---- C5 ------------------------------------------------------------------
\* C5: len(), the wrapping difference of the cursors, equals the number of
\* elements queued (accepted and not yet handed out), also after the write
\* cursor has overflowed to a value below the read cursor.
C5_LenIsQueuedCount == len(Ring) = Len(queued)

\* elements are queued across the overflow of the write cursor
C5_Witness == writer < reader /\ Len(queued) > 0 /\ len(Ring) = Len(queued)

\* ---- C6 ------------------------------------------------------------------
\* C6: is_empty holds iff the cursors are equal iff nothing is queued, is_full
\* holds iff `length` elements are queued, and the two never hold together.
C6_EmptyFullDisambiguated ==
    /\ is_empty(Ring) <=> (reader = writer)
    /\ is_empty(Ring) <=> (Len(queued) = 0)
    /\ is_full(Ring) <=> (Len(queued) = length)
    /\ ~(is_empty(Ring) /\ is_full(Ring))

\* a full ring whose two cursors map to the same physical slot
C6_Witness ==
    /\ is_full(Ring) /\ ~is_empty(Ring)
    /\ phy(Ring, reader) = phy(Ring, writer)
    /\ Len(queued) = length

\* ---- C7 ------------------------------------------------------------------
\* C7: round trip.  A write of exactly `length` bytes into an empty ring
\* returns `length`; a read into a slice of at least `length` bytes that
\* directly follows it returns `length`, puts the written bytes in order at
\* the front of the slice and leaves the ring empty.
C7_RoundTrip ==
    /\ (roundtrip # << >> /\ last.op = "write") =>
            /\ last.n = length
            /\ queued = roundtrip
    /\ (roundtrip # << >> /\ last.op = "read" /\ Len(last.arg) >= length) =>
            /\ last.n = length
            /\ SubSeq(last.out, 1, length) = roundtrip
            /\ is_empty(Ring)
            /\ queued = << >>

\* a round trip of two different bytes has completed
C7_Witness ==
    /\ last.op = "read" /\ roundtrip # << >> /\ Len(last.arg) >= length
    /\ length > 1 /\ roundtrip[1] # roundtrip[2]

\* ---- C8 ------------------------------------------------------------------
\* C8: short write.  With R free slots, write of a slice of L bytes returns
\* min(R, L); the bytes the reader can then dequeue are the ones queued
\* before followed by the first min(R, L) bytes of the slice, in order; and
\* when L > R the rest is not stored and the ring is full.
C8_ShortWrite ==
    /\ [][ last'.op = "write" =>
              LET buf == last'.arg
                  R == length - Len(queued)
                  k == min(R, Len(buf))
              IN  /\ last'.n = k
                  /\ ~panicked'
                  /\ queued' = queued \o SubSeq(buf, 1, k)
                  /\ Len(buf) > R => (last'.n = R /\ Len(queued') = length)
          ]_vars
    /\ [](last.op = "write" => (Drained = queued /\ (is_full(Ring) <=> Len(queued) = length)))

\* a write that found a partly filled ring and stored only a part of its slice
C8_Witness ==
    /\ last.op = "write" /\ last.before > 0
    /\ last.n > 0 /\ last.n < Len(last.arg)
    /\ last.arg[last.n] # last.arg[last.n + 1]
    /\ is_full(Ring)

\* ---- C9 ------------------------------------------------------------------
\* C9: short read.  With Q bytes queued, read into a slice of L bytes returns
\* min(Q, L), puts the oldest min(Q, L) queued bytes in order at the front of
\* the slice and leaves the rest of the slice as it was; when L > Q the ring
\* is empty afterwards.
C9_ShortRead ==
    [][ last'.op = "read" =>
          LET buf == last'.arg
              Q == Len(queued)
              k == min(Q, Len(buf))
          IN  /\ last'.n = k
              /\ ~panicked'
              /\ Len(last'.out) = Len(buf)
              /\ \A i \in 1 .. k : last'.out[i] = queued[i]
              /\ \A i \in k + 1 .. Len(buf) : last'.out[i] = buf[i]
              /\ queued' = Drop(queued, k)
              /\ Len(buf) > Q =>
                    (last'.n = Q /\ reader' = writer' /\ queued' = << >>)
      ]_vars

\* a read that got fewer bytes than its slice holds and left the tail alone
C9_Witness ==
    /\ last.op = "read" /\ last.before > 0
    /\ last.n = last.before /\ last.n < Len(last.arg)
    /\ last.out[1] = 0 /\ last.out[Len(last.arg)] = MaxVal
    /\ last.arg[1] = MaxVal
    /\ reader = writer

C11_SpscPrefix ==
    /\ [][ (rctx.pc = "advance" /\ reader' # reader) =>
              /\ queued # << >>
              /\ rctx.val = Head(queued)
              /\ queued' = Tail(queued) ]_vars
    /\ [](Len(queued) = Occupied)

\* the reader is about to hand over a value while the writer is in the
\* middle of an enqueue, after the cursors have overflowed
C11_Witness ==
    /\ rctx.pc = "advance" /\ wctx.pc = "advance"
    /\ writer < reader
    /\ rctx.val = Head(queued)
    /\ rctx.val # Head(wctx.rest)

\* C12: whatever the two contexts call and however their steps interleave,
\* no assertion fires: the writer never stands at the assert of incr_writer
\* with a full buffer, the reader never at that of incr_reader with an empty
\* one.
C12_AssertsUnreachable ==
    /\ ~panicked
    /\ wctx.pc = "assert" => Occupied # length
    /\ rctx.pc = "assert" => reader # writer

\* both contexts stand at their assert at once, the writer inside write
C12_Witness ==
    /\ wctx.pc = "assert" /\ wctx.call = "write"
    /\ rctx.pc = "assert" /\ rctx.call = "read"
    /\ Occupied = length - 1

\* C14: inside write every inner enqueue finds room and write returns n after
\* n stored elements; inside read every inner dequeue finds an element and
\* read returns after n of them, never panicking, however the other context
\* moves meanwhile.
C14_StaleCountSafe ==
    [][ /\ (wctx.call = "write" /\ wctx.pc = "check" /\ wctx' # wctx) =>
              Occupied # length
        /\ (wctx.call = "write" /\ wctx'.pc = "idle") =>
              (writer' = wrapping_add(writer, 1) /\ wctx.oks + 1 = wctx.n)
        /\ (rctx.call = "read" /\ rctx.pc = "check" /\ rctx' # rctx) =>
              (reader # writer /\ ~panicked')
        /\ (rctx.call = "read" /\ rctx'.pc = "idle") =>
              (reader' = wrapping_add(reader, 1) /\ rctx.left = 1) ]_vars

\* a write that took n = capacity on an empty buffer is at an inner enqueue
\* after the reader, running beside it, has freed a slot again: there is more
\* room than the count it works from
C14_Witness ==
    /\ wctx.call = "write" /\ wctx.pc = "check" /\ wctx.n = length
    /\ wctx.oks > 0
    /\ rem(Ring) > Len(wctx.rest)

\* C13: for the capacities the crate builds, whatever is called: the values
\* a dequeue or a read hands over are the oldest accepted values in
\* acceptance order, what stays queued is untouched and still read back from
\* the slots in that order, and an enqueue succeeds exactly while fewer than
\* capacity elements are queued, so that k dequeues on a full buffer make
\* room for exactly k enqueues, which land in the freed slots.
C13_FifoWithReuse ==
    /\ [][ LET out == IF last'.op = "dequeue" THEN last'.val
                      ELSE IF last'.op = "read"
                           THEN SubSeq(last'.out, 1, last'.n)
                           ELSE << >>
               inn == IF last'.op = "enqueue" /\ last'.ok THEN last'.arg
                      ELSE IF last'.op = "write"
                           THEN SubSeq(last'.arg, 1, last'.n)
                           ELSE << >>
           IN  /\ Len(out) <= Len(queued)
               /\ out = SubSeq(queued, 1, Len(out))
               /\ queued' = Drop(queued, Len(out)) \o inn
               /\ last'.op = "enqueue" => last'.ok = (Len(queued) < length)
         ]_vars
    /\ [](WordMod % length = 0 /\ Drain(Ring, length) = queued)

\* the buffer is full again after elements were taken from it: the enqueue
\* that just succeeded stored into a slot freed by a dequeue, below the slot
\* of the oldest element
C13_Witness ==
    /\ last.op = "enqueue" /\ last.ok
    /\ Occupied = length /\ length > 1
    /\ reader > 0 /\ writer > reader
    /\ phy(Ring, reader) > 0
    /\ phy(Ring, wrapping_sub(writer, 1)) < phy(Ring, reader)

\* C15: a call on the writer view, successful or not, leaves the read cursor
\* as it was; a call on the reader view leaves the write cursor and every
\* storage slot as they were; a successful enqueue leaves every slot but the
\* one at write cursor mod capacity as it was and puts its byte there.
C15_DisjointFrames ==
    [][ /\ last'.op \in {"enqueue", "write"} => reader' = reader
        /\ last'.op \in {"dequeue", "read"} =>
              (writer' = writer /\ buffer' = buffer)
        /\ (last'.op = "enqueue" /\ last'.ok) =>
              /\ buffer'[writer % length] = last'.arg[1]
              /\ \A i \in DOMAIN buffer :
                    i # writer % length => buffer'[i] = buffer[i]
        /\ (last'.op = "enqueue" /\ ~last'.ok) => buffer' = buffer
        /\ length' = length /\ DOMAIN buffer' = DOMAIN buffer ]_vars

\* a dequeue has just handed over a nonzero byte whose slot still holds it,
\* beside another slot that an enqueue changed before
C15_Witness ==
    /\ last.op = "dequeue" /\ last.val # None /\ last.val # Some(0)
    /\ buffer[phy(Ring, wrapping_sub(reader, 1))] = last.val[1]
    /\ length > 1 /\ writer < reader

\* C16: a successful enqueue moves the write cursor by one and a successful
\* dequeue the read cursor by one, modulo 2^wordsize; a write or read that
\* returns n moves its cursor by n; a refused enqueue or empty dequeue moves
\* nothing; no call moves a cursor in any other way.
C16_CursorStepping ==
    [][ /\ last'.op = "enqueue" =>
              writer' = wrapping_add(writer, IF last'.ok THEN 1 ELSE 0)
        /\ last'.op = "write" => writer' = wrapping_add(writer, last'.n)
        /\ last'.op = "dequeue" =>
              reader' = wrapping_add(reader, IF last'.val = None THEN 0 ELSE 1)
        /\ last'.op = "read" => reader' = wrapping_add(reader, last'.n)
        /\ last'.op \in {"enqueue", "write"} => reader' = reader
        /\ last'.op \in {"dequeue", "read"} => writer' = writer ]_vars

\* a read of several elements has carried the read cursor over the overflow
C16_Witness ==
    /\ last.op = "read" /\ last.n > 1
    /\ reader < last.n
    /\ writer >= reader

\* C19: in every reachable state rem() and len() add up to cap(), rem() is
\* the capacity minus the number of queued elements, it is 0 exactly when
\* the buffer is full and the capacity exactly when it is empty.
C19_FreeSpaceAccounting ==
    /\ rem(Ring) + len(Ring) = cap(Ring)
    /\ rem(Ring) = length - Len(queued)
    /\ rem(Ring) = 0 <=> is_full(Ring)
    /\ rem(Ring) = cap(Ring) <=> is_empty(Ring)

\* a partly filled buffer whose write cursor has overflowed: the subtraction
\* inside len() wraps, the one inside rem() does not
C19_Witness ==
    /\ writer < reader
    /\ rem(Ring) > 0 /\ rem(Ring) < cap(Ring)
    /\ last.op = "write" /\ last.n > 0

\* C17: incr_writer called on a full buffer, and incr_reader called on an
\* empty one, abort: the call does not return and leaves both cursors and
\* the storage as they were; called otherwise they move their cursor by one
\* and return.
C17_GuardAborts ==
    [][ /\ (last'.op = "incr_writer" /\ Occupied = length) =>
              (panicked' /\ writer' = writer /\ reader' = reader
                         /\ buffer' = buffer)
        /\ (last'.op = "incr_reader" /\ reader = writer) =>
              (panicked' /\ reader' = reader /\ writer' = writer
                         /\ buffer' = buffer)
        /\ (last'.op = "incr_writer" /\ Occupied # length /\ last' # last) =>
              (~panicked' /\ writer' = wrapping_add(writer, 1))
        /\ (last'.op = "incr_reader" /\ reader # writer /\ last' # last) =>
              (~panicked' /\ reader' = wrapping_add(reader, 1))
        /\ panicked => UNCHANGED vars ]_vars

\* incr_writer has aborted on a full buffer whose write cursor had overflowed
C17_Witness ==
    /\ panicked /\ last.op = "incr_writer"
    /\ Occupied = length /\ writer < reader

\* C18: no operation waits.  A context that is in no operation can call
\* each of its operations whatever the state of the buffer and of the other
\* context; a context inside an operation can always make its next
\* statement; every statement strictly shortens what the operation has left,
\* which is at most four statements per element; write starts exactly
\* min(rem, len(input)) inner enqueues and read exactly min(len, len(output))
\* inner dequeues, so never one on a full (empty) buffer.  (The bytes of a
\* slice that write does not reach play no part: a call with a slice of l
\* bytes is recognised by the l bytes it would take first.)
C18_NonBlocking ==
    /\ [](~panicked =>
           /\ wctx.pc = "idle" =>
                 /\ \A value \in Values : ENABLED WCallEnqueue(value)
                 /\ \A l \in 0 .. MaxBuf, value \in Values :
                       ENABLED WCallWrite([i \in 1 .. l |-> value])
           /\ wctx.pc # "idle" => ENABLED WStep
           /\ rctx.pc = "idle" =>
                 /\ ENABLED RCallDequeue
                 /\ \A l \in 0 .. MaxBuf : ENABLED RCallRead(l)
           /\ rctx.pc # "idle" => ENABLED RStep)
    /\ [][ /\ (wctx.pc # "idle" /\ wctx' # wctx) =>
                 Work(WOrder, wctx'.pc, Len(wctx'.rest))
                    < Work(WOrder, wctx.pc, Len(wctx.rest))
           /\ (rctx.pc # "idle" /\ rctx' # rctx) =>
                 Work(ROrder, rctx'.pc, rctx'.left)
                    < Work(ROrder, rctx.pc, rctx.left)
           /\ (wctx.pc = "idle" /\ wctx'.call = "write") =>
                 \A l \in 0 .. MaxBuf :
                    WCallWrite(SubSeq(wctx'.rest \o [i \in 1 .. l |-> 0], 1, l)) =>
                       /\ Len(wctx'.rest) = min(length - Occupied, l)
                       /\ Work(WOrder, wctx'.pc, Len(wctx'.rest))
                             <= Len(WOrder) * l
           /\ (rctx.pc = "idle" /\ rctx'.call = "read") =>
                 \A l \in 0 .. MaxBuf :
                    RCallRead(l) =>
                       /\ rctx'.left = min(Occupied, l)
                       /\ Work(ROrder, rctx'.pc, rctx'.left) <= Len(ROrder) * l
         ]_vars

\* the reader is in no operation on an empty buffer while the writer is
\* inside a write that has stored nothing yet
C18_Witness ==
    /\ rctx.pc = "idle" /\ reader = writer
    /\ wctx.call = "write" /\ wctx.pc = "store" /\ Len(wctx.rest) > 1

\* C20: with a reader that keeps calling dequeue, every accepted element is
\* eventually handed over (the read cursor passes the cursor value it was
\* accepted at); if the writer moreover keeps calling enqueue, every refused
\* enqueue is eventually followed by an accepted one.
C20_EventualDelivery ==
    /\ \A p \in 0 .. WordMod - 1 : InWindow(p) ~> ~InWindow(p)
    /\ WriterRetries =>
          ((last.op = "enqueue" /\ ~last.ok) ~> (last.op = "enqueue" /\ last.ok))

\* an enqueue has been accepted into the last free slot of a buffer that
\* the reader had taken elements from, after the write cursor overflowed
C20_Witness ==
    /\ last.op = "enqueue" /\ last.ok
    /\ Occupied = length
    /\ reader # 0 /\ writer < reader

====
